---- MODULE Spec2Model ----
(***************************************************************************)
(* Model of go-cidr-pkg (src/go-cidr-pkg.go): decomposition of an address  *)
(* interval into CIDR blocks (Range.ToIpNets) and merging of address       *)
(* intervals (MergeRanges).                                                *)
(*                                                                         *)
(* An address (net.IP) is a sequence of bytes 0..255, most significant     *)
(* byte first.  Go index i is TLA+ index i+1.                              *)
(***************************************************************************)
EXTENDS Integers, Sequences, FiniteSets, TLC

(***************************************************************************)
(* Bounds of the model.                                                    *)
(***************************************************************************)
\* byte length of the short address family the inputs are sampled from
SampleLen == 2
\* half-width of the windows of sampled addresses around the landmarks
\* (zero, every byte-carry boundary, all-ones) for the decomposition
MaxOff == 4

(***************************************************************************)
(* Bit operations on one byte (Go: uint8 operators and math/bits).         *)
(***************************************************************************)
Pow2(n) == 2 ^ n

Bit(b, k) == (b \div Pow2(k)) % 2

\* a ^ b on bytes
XorByte(a, b) ==
  LET d(k) == ((Bit(a, k) + Bit(b, k)) % 2) * Pow2(k)
  IN  d(0) + d(1) + d(2) + d(3) + d(4) + d(5) + d(6) + d(7)

\* a | b on bytes
OrByte(a, b) ==
  LET d(k) == (IF Bit(a, k) + Bit(b, k) > 0 THEN 1 ELSE 0) * Pow2(k)
  IN  d(0) + d(1) + d(2) + d(3) + d(4) + d(5) + d(6) + d(7)

\* a & b on bytes
AndByte(a, b) ==
  LET d(k) == (Bit(a, k) * Bit(b, k)) * Pow2(k)
  IN  d(0) + d(1) + d(2) + d(3) + d(4) + d(5) + d(6) + d(7)

\* ^b on a byte
NotByte(b) == 255 - b

\* bits.LeadingZeros8
LeadingZeros8(b) ==
  IF b = 0 THEN 8
  ELSE CHOOSE n \in 0..7 : Pow2(7 - n) <= b /\ b < Pow2(8 - n)

\* bits.TrailingZeros8
TrailingZeros8(b) ==
  IF b = 0 THEN 8
  ELSE CHOOSE n \in 0..7 : b % Pow2(n) = 0 /\ b % Pow2(n + 1) # 0

(***************************************************************************)
(* Library functions of bytes and net used by the package.                 *)
(***************************************************************************)
RECURSIVE CompareFrom(_, _, _)
CompareFrom(a, b, i) ==
  IF i > Len(a) \/ i > Len(b)
  THEN (IF Len(a) < Len(b) THEN -1 ELSE IF Len(a) > Len(b) THEN 1 ELSE 0)
  ELSE IF a[i] < b[i] THEN -1
  ELSE IF a[i] > b[i] THEN 1
  ELSE CompareFrom(a, b, i + 1)

\* bytes.Compare: unsigned lexicographic comparison, -1, 0 or 1
Compare(a, b) == CompareFrom(a, b, 1)

\* net.CIDRMask(ones, bits): a mask of bits/8 bytes with ones leading 1 bits
CIDRMask(ones, bits) ==
  [i \in 1..(bits \div 8) |->
     LET n == ones - 8 * (i - 1)
     IN  IF n >= 8 THEN 255
         ELSE IF n <= 0 THEN 0
         ELSE NotByte(255 \div Pow2(n))]

(***************************************************************************)
(* Helper functions of the package.                                        *)
(***************************************************************************)
RECURSIVE addOneFrom(_, _)
addOneFrom(result, i) ==
  IF i < 1 THEN result
  ELSE LET r2 == [result EXCEPT ![i] = (result[i] + 1) % 256]
       IN  IF r2[i] # 0 THEN r2 ELSE addOneFrom(r2, i - 1)

\* addOne: ip + 1 on a copy, the carry running from the last byte to the
\* first; the all-ones address wraps to the all-zero address
addOne(ip) == addOneFrom(ip, Len(ip))

\* lastIp: ip[i] |= ^mask[i] on a copy of ipNet.IP
lastIp(ipNet) ==
  [i \in 1..Len(ipNet.IP) |-> OrByte(ipNet.IP[i], NotByte(ipNet.Mask[i]))]

RECURSIVE prefixLengthFrom(_, _)
prefixLengthFrom(x, i) ==
  IF i > Len(x) THEN Len(x) * 8
  ELSE IF x[i] # 0 THEN (i - 1) * 8 + LeadingZeros8(x[i])
  ELSE prefixLengthFrom(x, i + 1)

\* prefixLength: number of leading zero bits of x
prefixLength(x) == prefixLengthFrom(x, 1)

RECURSIVE trailingZerosFrom(_, _)
trailingZerosFrom(ip, i) ==
  IF i < 1 THEN Len(ip) * 8
  ELSE IF ip[i] # 0 THEN (Len(ip) - i) * 8 + TrailingZeros8(ip[i])
  ELSE trailingZerosFrom(ip, i - 1)

\* trailingZeros: number of trailing zero bits of ip
trailingZeros(ip) == trailingZerosFrom(ip, Len(ip))

\* xor: bytewise a ^ b
xor(a, b) == [i \in 1..Len(a) |-> XorByte(a[i], b[i])]

lessThan(a, b) == Compare(a, b) < 0

max(a, b) == IF a > b THEN a ELSE b


(***************************************************************************)
(* Types of the package.                                                   *)
(***************************************************************************)
\* NewRange: a Range value {start, end}
NewRange(start, end) == [start |-> start, end |-> end]

\* &net.IPNet{IP: s, Mask: net.CIDRMask(cidr, ipBits)}
IPNet(ip, cidr, ipBits) == [IP |-> ip, Mask |-> CIDRMask(cidr, ipBits)]

(***************************************************************************)
(* Inputs.  Short addresses are sampled in windows around the landmarks    *)
(* where the byte arithmetic changes shape: zero, each carry boundary      *)
(* 256^k, and the all-ones top of the address space.  16-byte addresses    *)
(* are the README example's addresses and their neighbours.                *)
(***************************************************************************)
\* net.IPv6len
IPv6len == 16

\* the n-byte big-endian address of the number v
IntToIp(v, n) == [i \in 1..n |-> (v \div (256 ^ (n - i))) % 256]

Window(n, off) ==
  (0..off)
    \cup UNION {((256 ^ k) - off)..((256 ^ k) + off - 1) : k \in 1..(n - 1)}
    \cup (((256 ^ n) - off)..((256 ^ n) - 1))

SampleAddrs == {IntToIp(v, SampleLen) : v \in Window(SampleLen, MaxOff)}

Zero(n) == [i \in 1..n |-> 0]

AllOnes(n) == [i \in 1..n |-> 255]

\* net.ParseIP on a 16-byte address written as its eight 16-bit groups:
\* every group becomes two bytes, high byte first
ParseIP(groups) ==
  [i \in 1..IPv6len |->
     IF i % 2 = 1 THEN groups[(i + 1) \div 2] \div 256
     ELSE groups[i \div 2] % 256]

\* 2001:200:g:: and 2001:200:g:ffff:ffff:ffff:ffff:ffff for g in 0x140..0x143
V6Groups ==
  {<<8193, 512, g, t, t, t, t, t>> : g \in 320..323, t \in {0, 65535}}

V6Addrs == {ParseIP(h) : h \in V6Groups}

(***************************************************************************)
(* State of one call of Range.ToIpNets.                                    *)
(***************************************************************************)
VARIABLES
  r,        \* the receiver *Range: [start, end]
  s,        \* the local s of ToIpNets
  result,   \* the local result: the sequence of blocks emitted so far
  pc,       \* "loop": at the head of the for loop; "done": returned
  wrapper   \* <<n>> when the receiver is IpNetWrapper{n}.ToRange(), else <<>>

(***************************************************************************)
(* State of the calls of MergeRanges.  A *Range is a reference: an index   *)
(* into heap.                                                              *)
(***************************************************************************)
VARIABLES
  heap,     \* the Range objects: heap[k] is the Range that reference k points to
  ranges,   \* the argument of the call: a sequence of IRange values
  args,     \* the intervals the arguments stood for when the call was made
  out,      \* the slice the call returned: a sequence of references
  prev,     \* the intervals the previous call returned
  mpc       \* "call": MergeRanges is about to run; "returned"; "idle"

vars == <<r, s, result, pc, wrapper, heap, ranges, args, out, prev, mpc>>

mergeVars == <<heap, ranges, args, out, prev, mpc>>

\* IpNetWrapper.ToIpNets: the wrapped block alone
IpNetWrapperToIpNets(n) == <<n>>

\* IpNetWrapper.ToRange: &Range{start: ipNet.IP, end: lastIp(ipNet)}
IpNetWrapperToRange(n) == NewRange(n.IP, lastIp(n))

\* the aligned blocks at the sampled addresses, of every prefix length
SampleNets ==
  {n \in UNION {{IPNet(a, p, 8 * Len(a)) : p \in 0..(8 * Len(a))} :
                  a \in SampleAddrs \cup V6Addrs} :
     [i \in 1..Len(n.IP) |-> AndByte(n.IP[i], n.Mask[i])] = n.IP}

\* The receiver of ToIpNets is made by NewRange(start, end) or is
\* IpNetWrapper{n}.ToRange().
Init ==
  /\ \/ /\ \E A \in {SampleAddrs, V6Addrs} :
            \E start \in A, end \in A : r = NewRange(start, end)
        /\ wrapper = <<>>
     \/ \E n \in SampleNets :
            /\ r = IpNetWrapperToRange(n)
            /\ wrapper = IpNetWrapperToIpNets(n)
  /\ s = r.start
  /\ result = <<>>
  /\ pc = "loop"
  /\ heap = <<>> /\ ranges = <<>> /\ args = <<>> /\ out = <<>> /\ prev = <<>>
  /\ mpc = "idle"

\* pastEnd with the comparison turned round
pastEnd_Reversed(x, end) == Compare(x, end) < 0

\* the loop's entry test: s is past end
pastEnd(x, end) == Compare(x, end) > 0

\* cidrOf taking the smaller of the two prefix lengths
cidrOf_Min(x, end) ==
  LET a == prefixLength(xor(addOne(end), x))
      b == Len(x) * 8 - trailingZeros(x)
  IN  IF a < b THEN a ELSE b

\* cidrOf with the boundary prefix one bit longer
cidrOf_PlusOne(x, end) ==
  max(prefixLength(xor(addOne(end), x)) + 1, Len(x) * 8 - trailingZeros(x))

\* the prefix length of the block emitted at s
cidrOf(x, end) ==
  max(prefixLength(xor(addOne(end), x)), Len(x) * 8 - trailingZeros(x))

\* if bytes.Compare(s, end) > 0 { break }
LoopExit ==
  /\ pc = "loop"
  /\ pastEnd(s, r.end)
  /\ pc' = "done"
  /\ UNCHANGED <<r, s, result, wrapper>>
  /\ UNCHANGED mergeVars

\* one iteration of the loop that emits a block
EmitBlock ==
  /\ pc = "loop"
  /\ ~pastEnd(s, r.end)
  /\ LET ipBits == Len(s) * 8
         ipNet  == IPNet(s, cidrOf(s, r.end), ipBits)
         tmp    == lastIp(ipNet)
     IN  /\ result' = Append(result, ipNet)
         /\ IF ~lessThan(tmp, r.end)
            THEN pc' = "done" /\ s' = s
            ELSE pc' = "loop" /\ s' = addOne(tmp)
  /\ UNCHANGED <<r, wrapper>>
  /\ UNCHANGED mergeVars

Next == LoopExit \/ EmitBlock

Spec == Init /\ [][Next]_vars

(***************************************************************************)
(* MergeRanges.                                                            *)
(***************************************************************************)
\* largest number of arguments of one call
MaxRanges == 2

\* The three shapes of IRange.  A *Range argument is a reference into the
\* heap; an IpWrapper holds an address, an IpNetWrapper a block.
RangeArg(k) == [kind |-> "Range", ref |-> k]

IpArg(ip) == [kind |-> "IpWrapper", IP |-> ip]

IpNetArg(n) == [kind |-> "IpNetWrapper", IPNet |-> n]

\* ToRange of the three shapes, as the interval it stands for: Range
\* returns itself, IpWrapper {IP, IP}, IpNetWrapper {IP, lastIp(ipNet)}
ToRangeValue(h, x) ==
  IF x.kind = "Range" THEN h[x.ref]
  ELSE IF x.kind = "IpWrapper" THEN NewRange(x.IP, x.IP)
  ELSE NewRange(x.IPNet.IP, lastIp(x.IPNet))

RECURSIVE Normalize(_, _, _, _)
\* the loop that builds rangeList: Range.ToRange returns the argument's own
\* reference, the other two shapes allocate a new Range
Normalize(h, xs, i, list) ==
  IF i > Len(xs) THEN [heap |-> h, rangeList |-> list]
  ELSE IF xs[i].kind = "Range"
       THEN Normalize(h, xs, i + 1, Append(list, xs[i].ref))
       ELSE Normalize(Append(h, ToRangeValue(h, xs[i])), xs, i + 1,
                      Append(list, Len(h) + 1))

RECURSIVE SortedFrom(_, _, _)
\* the arrangements of the elements of list at the positions in pos, each
\* begun by an element whose start no other remaining element is below
SortedFrom(h, list, pos) ==
  IF pos = {} THEN {<<>>}
  ELSE UNION {
         {<<list[m]>> \o rest : rest \in SortedFrom(h, list, pos \ {m})} :
           m \in {k \in pos : \A j \in pos :
                    Compare(h[list[k]].start, h[list[j]].start) <= 0}}

\* sort.Slice with less = (start_i < start_j): any arrangement of the
\* slice with ascending starts; the order of equal starts is not specified
SortedByStart(h, list) == SortedFrom(h, list, 1..Len(list))

\* the test "overlapping or adjacent": addOne(current.end) >= next.start
touches(curEnd, nextStart) == Compare(addOne(curEnd), nextStart) >= 0

\* mergedEnd without the comparison: the end is always replaced
mergedEnd_Always(curEnd, nextEnd) == nextEnd

\* the end of current after merging next into it
mergedEnd(curEnd, nextEnd) ==
  IF Compare(curEnd, nextEnd) < 0 THEN nextEnd ELSE curEnd

RECURSIVE MergeLoop(_, _, _, _, _)
\* the loop over the sorted rangeList from index i on; current and the
\* elements of res are references, and current.end is assigned through the
\* reference
MergeLoop(h, list, i, current, res) ==
  IF i > Len(list) THEN [heap |-> h, result |-> Append(res, current)]
  ELSE LET next == list[i]
       IN  IF touches(h[current].end, h[next].start)
           THEN MergeLoop(
                  [h EXCEPT ![current].end = mergedEnd(h[current].end, h[next].end)],
                  list, i + 1, current, res)
           ELSE MergeLoop(h, list, i + 1, next, Append(res, current))

\* the intervals a slice of references stands for
Values(h, refs) == [k \in 1..Len(refs) |-> h[refs[k]]]

\* Addresses of the merge inputs: zero and its successor, the two sides of
\* the byte carry (0.255 and 1.0), the all-ones address and the one before
MergeAddrs ==
  {<<0, 0>>, <<0, 1>>, <<0, 255>>, <<1, 0>>, <<255, 254>>, <<255, 255>>}

MergeRangeValues ==
  {v \in {NewRange(a, b) : a \in MergeAddrs, b \in MergeAddrs} :
     Compare(v.start, v.end) <= 0}

\* aligned blocks at the sampled addresses
MergeNets ==
  {n \in {IPNet(a, p, 8 * Len(a)) : a \in MergeAddrs, p \in {0, 8, 15}} :
     [i \in 1..Len(n.IP) |-> AndByte(n.IP[i], n.Mask[i])] = n.IP}

\* Descriptions of one argument: a new *Range, the same *Range as an
\* earlier argument, an IpWrapper or an IpNetWrapper
ArgShapes(n) ==
  {[kind |-> "Range", val |-> v] : v \in MergeRangeValues}
    \cup {[kind |-> "Same", of |-> j] : j \in 1..(n - 1)}
    \cup {IpArg(a) : a \in MergeAddrs}
    \cup {IpNetArg(b) : b \in MergeNets}

\* the reference of argument i: new Ranges are numbered as they appear
RefOfArg(d, i) ==
  LET j == IF d[i].kind = "Same" THEN d[i].of ELSE i
  IN  Cardinality({k \in 1..j : d[k].kind = "Range"})

InitMerge ==
  /\ \E n \in 0..MaxRanges : \E d \in [1..n -> ArgShapes(n)] :
       /\ \A i \in 1..n :
            d[i].kind = "Same" => (d[i].of < i /\ d[d[i].of].kind = "Range")
       /\ LET news == {k \in 1..n : d[k].kind = "Range"}
          IN  heap = [m \in 1..Cardinality(news) |->
                        d[CHOOSE k \in news : RefOfArg(d, k) = m].val]
       /\ ranges = [i \in 1..n |->
                      IF d[i].kind \in {"Range", "Same"}
                      THEN RangeArg(RefOfArg(d, i)) ELSE d[i]]
  /\ args = [i \in 1..Len(ranges) |-> ToRangeValue(heap, ranges[i])]
  /\ out = <<>>
  /\ prev = <<>>
  /\ mpc = "call"
  /\ r = NewRange(<<>>, <<>>) /\ s = <<>> /\ result = <<>> /\ pc = "idle"
  /\ wrapper = <<>>

\* one call of MergeRanges(ranges)
MergeRanges ==
  /\ mpc = "call"
  /\ IF Len(ranges) = 0
     THEN /\ out' = <<>>
          /\ heap' = heap
     ELSE LET norm == Normalize(heap, ranges, 1, <<>>)
          IN  \E sorted \in SortedByStart(norm.heap, norm.rangeList) :
                LET res == MergeLoop(norm.heap, sorted, 2, sorted[1], <<>>)
                IN  /\ heap' = res.heap
                    /\ out' = res.result
  /\ mpc' = "returned"
  /\ UNCHANGED <<ranges, args, prev, r, s, result, pc, wrapper>>

\* the caller passes the returned slice to MergeRanges again
MergeAgain ==
  /\ mpc = "returned"
  /\ prev = <<>>
  /\ out # <<>>
  /\ ranges' = [i \in 1..Len(out) |-> RangeArg(out[i])]
  /\ args' = Values(heap, out)
  /\ prev' = Values(heap, out)
  /\ mpc' = "call"
  /\ UNCHANGED <<heap, out, r, s, result, pc, wrapper>>

NextMerge == MergeRanges \/ MergeAgain

SpecMerge == InitMerge /\ [][NextMerge]_vars

(***************************************************************************)
(* Vocabulary of the properties.                                           *)
(***************************************************************************)
WellFormed(rg) == Compare(rg.start, rg.end) <= 0

\* net.IPMask.Size: the prefix length of a mask made by CIDRMask
Ones(mask) == prefixLength([i \in 1..Len(mask) |-> NotByte(mask[i])])

BitWidth(ip) == 8 * Len(ip)

\* ip & mask, bytewise
Masked(ip, mask) == [i \in 1..Len(ip) |-> AndByte(ip[i], mask[i])]

\* the base has no bit set below the prefix length
Aligned(n) == Masked(n.IP, n.Mask) = n.IP

\* the addresses of a block (net.IPNet.Contains: a & Mask = IP & Mask) are
\* the interval from IP & Mask to IP | ^Mask
BlockInterval(n) == NewRange(Masked(n.IP, n.Mask), lastIp(n))

\* a lies in one of the intervals of S
Covered(a, S) ==
  \E iv \in S : Compare(iv.start, a) <= 0 /\ Compare(a, iv.end) <= 0

\* Going up through the addresses, membership in a union of intervals can
\* change only at a start (out to in) or at one past an end (in to out).
Probes(S, n) ==
  {Zero(n)} \cup {iv.start : iv \in S}
            \cup {addOne(iv.end) : iv \in {j \in S : j.end # AllOnes(n)}}

\* The unions of S and of T are the same set of n-byte addresses: they
\* agree at address zero and wherever either can change, hence everywhere.
SameUnion(S, T, n) ==
  \A a \in Probes(S, n) \cup Probes(T, n) : Covered(a, S) <=> Covered(a, T)

Blocks == {BlockInterval(result[i]) : i \in 1..Len(result)}

\* blocks i and i+1 have the same prefix length p and are the two halves
\* of one aligned block of prefix length p - 1
Mergeable(a, b) ==
  LET p == Ones(a.Mask)
  IN  /\ Ones(b.Mask) = p
      /\ p >= 1
      /\ Aligned(IPNet(a.IP, p - 1, BitWidth(a.IP)))
      /\ lastIp(a) # AllOnes(Len(a.IP))
      /\ b.IP = addOne(lastIp(a))

(***************************************************************************)
(* Properties of Range.ToIpNets.                                           *)
(***************************************************************************)
\* C1 (coverage): when ToIpNets has returned for a well-formed interval
\* [start, end], the union of the returned blocks is exactly [start, end]:
\* no address of it is missing and no address outside it is in a block.
C1_Coverage ==
  (pc = "done" /\ WellFormed(r)) => SameUnion(Blocks, {r}, Len(r.start))

\* C2 (single address): for start = end = a, ToIpNets returns exactly one
\* block, with base a and prefix length 8 * len(a).
C2_SingleAddress ==
  (pc = "done" /\ r.start = r.end) =>
     /\ Len(result) = 1
     /\ result[1].IP = r.start
     /\ Ones(result[1].Mask) = BitWidth(r.start)

\* C3 (alignment): every block ToIpNets emits has a base whose bits below
\* the block's prefix length are all zero.
C3_Alignment == \A i \in 1..Len(result) : Aligned(result[i])

\* a finished decomposition of several blocks, one of them wider than a
\* single address
C3_Witness ==
  /\ pc = "done"
  /\ Len(result) >= 3
  /\ \E i \in 1..Len(result) :
       /\ Ones(result[i].Mask) < BitWidth(r.start) - 1
       /\ result[i].IP # Zero(Len(r.start))

\* C4 (minimality): when ToIpNets has returned for a well-formed interval,
\* no two consecutive blocks have the same prefix length p and together
\* form one aligned block of prefix length p - 1.
C4_Minimality ==
  (pc = "done" /\ WellFormed(r)) =>
     \A i \in 1..(Len(result) - 1) : ~Mergeable(result[i], result[i + 1])

\* CalculateIPv6CIDRRange renders each block with IPNet.String: the base
\* as its eight 16-bit groups, then "/" and the prefix length of the mask
cidrString(n) ==
  [groups |-> [g \in 1..(IPv6len \div 2) |-> n.IP[2 * g - 1] * 256 + n.IP[2 * g]],
   prefix |-> Ones(n.Mask)]

\* 2001:200:141:: - 2001:200:142:ffff:ffff:ffff:ffff:ffff
ExampleRange ==
  NewRange(ParseIP(<<8193, 512, 321, 0, 0, 0, 0, 0>>),
           ParseIP(<<8193, 512, 322, 65535, 65535, 65535, 65535, 65535>>))

\* C9: decomposing 2001:200:141:: - 2001:200:142:ffff:ffff:ffff:ffff:ffff
\* returns exactly 2001:200:141::/48 and then 2001:200:142::/47.
C9_Example ==
  (pc = "done" /\ r = ExampleRange) =>
     [i \in 1..Len(result) |-> cidrString(result[i])] =
        << [groups |-> <<8193, 512, 321, 0, 0, 0, 0, 0>>, prefix |-> 48],
           [groups |-> <<8193, 512, 322, 0, 0, 0, 0, 0>>, prefix |-> 47] >>

C9_Witness == pc = "done" /\ r = ExampleRange /\ Len(result) = 2

\* C10: for an inverted interval (start > end) ToIpNets emits no block: it
\* leaves the loop at its first test and returns the empty list.
C10_InvertedEmpty ==
  Compare(r.start, r.end) > 0 => (result = <<>> /\ (pc = "done" \/ ENABLED LoopExit))

C10_Witness == pc = "done" /\ Compare(r.start, r.end) > 0 /\ result = <<>>

(***************************************************************************)
(* Properties of MergeRanges.                                              *)
(***************************************************************************)
\* the set of the elements of a sequence
Elems(q) == {q[i] : i \in 1..Len(q)}

\* the intervals MergeRanges returned
OutValues == Values(heap, out)

\* a and b share an address
Overlap(a, b) == Compare(a.start, b.end) <= 0 /\ Compare(b.start, a.end) <= 0

\* b starts at the address after the end of a
StartsAfter(a, b) == a.end # AllOnes(Len(a.end)) /\ b.start = addOne(a.end)

\* C5: the list MergeRanges returns for well-formed intervals is sorted
\* ascending by start, its intervals are pairwise disjoint, and none starts
\* at one past the end of another.
C5_SortedDisjoint ==
  mpc = "returned" =>
     \A i, j \in 1..Len(out) :
        i < j =>
          /\ Compare(OutValues[i].start, OutValues[j].start) <= 0
          /\ ~Overlap(OutValues[i], OutValues[j])
          /\ ~StartsAfter(OutValues[i], OutValues[j])
          /\ ~StartsAfter(OutValues[j], OutValues[i])

\* C6 (union preservation): the addresses covered by the intervals
\* MergeRanges returns are exactly the addresses covered by its arguments,
\* whatever their shapes; no argument, no result.
C6_UnionPreserved ==
  mpc = "returned" =>
     IF args = <<>> THEN out = <<>>
     ELSE SameUnion(Elems(OutValues), Elems(args), Len(args[1].start))

\* a call with an IpNetWrapper among its arguments that returned one
\* interval which is none of the arguments: two of them were coalesced
C6_Witness ==
  /\ mpc = "returned"
  /\ prev = <<>>
  /\ \E i \in 1..Len(ranges) : ranges[i].kind = "IpNetWrapper"
  /\ Len(out) = 1
  /\ OutValues[1] \notin Elems(args)

MergeOutcomes(vals) ==
  LET refs == [k \in 1..Len(vals) |-> k]
  IN  {LET res == MergeLoop(vals, sorted, 2, sorted[1], <<>>)
       IN  Values(res.heap, res.result) : sorted \in SortedByStart(vals, refs)}

\* the argument lists made of the same intervals as vals: its
\* permutations, and lists that repeat some of them
Rearranged(vals) ==
  UNION {{y \in [1..n -> Elems(vals)] : Elems(y) = Elems(vals)} :
           n \in 1..(MaxRanges + 1)}

\* C8: the set of intervals MergeRanges returns is the same for every
\* permutation of its arguments, every order of equal starts and every
\* repetition of an argument.
C8_OrderIndependent ==
  (mpc = "returned" /\ prev = <<>> /\ args # <<>>) =>
     \A y \in Rearranged(args) : \A o \in MergeOutcomes(y) :
        Elems(o) = Elems(OutValues)

\* C11 (inputs unchanged): when MergeRanges has returned, every Range that
\* was passed in directly as a *Range argument still has the start and the
\* end it had when the call was made.
C11_InputsUnchanged ==
  mpc = "returned" =>
     \A i \in 1..Len(ranges) :
        ranges[i].kind = "Range" => heap[ranges[i].ref] = args[i]

\* C12 (termination): for a well-formed interval the loop of ToIpNets runs
\* at most bitWidth times, each run emitting one block, and whenever it
\* goes round again s is past the top address of the block just emitted.
C12_IterationBound ==
  WellFormed(r) =>
     /\ Len(result) <= BitWidth(r.start)
     /\ (pc = "loop" /\ result # <<>>) =>
           Compare(s, lastIp(result[Len(result)])) > 0

\* C13 (network-block round trip): for an aligned block n,
\* IpNetWrapper{n}.ToRange().ToIpNets() returns the one-element list [n],
\* the list IpNetWrapper{n}.ToIpNets() returns.
C13_NetRoundTrip ==
  (pc = "done" /\ wrapper # <<>>) => result = wrapper

====
